---- MODULE Spec2Model ----
(***************************************************************************)
(* Model of run_nima.py: a command-line script that builds a MobileNet     *)
(* based NIMA network, loads its weights from a file next to the script,   *)
(* scores one image and prints "<mean>,<std>".                             *)
(*                                                                         *)
(* Numbers: the network's output is a vector of 10 float32 values.  Each   *)
(* is kept exactly, as the binary fraction the float holds.  The mean is   *)
(* the exact sum of the products, which is what float64 computes here (a   *)
(* sum of this size has no rounding).  The standard deviation is kept as   *)
(* the float64 under the root: the sum of the squared deviations, rounded  *)
(* to 53 significant bits after every multiplication and addition as       *)
(* float64 does.  The root itself is rounded to 53 bits too; of that       *)
(* float64 only the side of the next decimal tie it lies on is computed,   *)
(* which is all that formatting needs.  Formatting to 2 decimals rounds    *)
(* the value held, so a value written k/d that is no binary fraction is    *)
(* never on a tie: its float lies on one side of it.                       *)
(*                                                                         *)
(* Text: a line of output is a sequence of one-character strings, so that  *)
(* the shape of the printed line is a property that can be checked.        *)
(***************************************************************************)
EXTENDS Integers, Sequences, FiniteSets, TLC

VARIABLES
    scriptFile,   \* __file__ : absolute path of the running script
    sys_argv,     \* sys.argv : <<script, user arguments...>>
    fs,           \* the file system: path -> kind of content
    pc,           \* position in the program
    image_path,   \* main: image_path
    weights_path, \* main: weights_path
    model,        \* the Keras model object
    x,            \* evaluate_image: the preprocessed image tensor
    scores,       \* evaluate_image: scores
    mean,         \* evaluate_image: mean
    std,          \* evaluate_image: std
    raised,       \* the exception in flight, or None
    stdout,       \* lines printed to standard output
    stderr,       \* diagnostics written to standard error
    exitCode,     \* <<status>> once the process has exited, <<>> while it runs
    opens,        \* log of file opens: [path, mode, by]
    calls         \* log of calls to the framework and builtins

vars == <<scriptFile, sys_argv, fs, pc, image_path, weights_path, model, x,
          scores, mean, std, raised, stdout, stderr, exitCode, opens, calls>>

None == "None"                                       \* a name not yet bound
NoPath == <<>>
NoModel == [outputs |-> 0, weights |-> None]
NoScores == <<>>
NoValue == [big |-> <<>>, scale |-> 0, sqrt |-> FALSE]

(***************************************************************************)
(* Bounds                                                                  *)
(***************************************************************************)
MaxArgs == 2   \* user arguments on the command line: 0..MaxArgs
MaxDen == 3    \* model outputs in multiples of 1/d, d in 1..MaxDen (plus uniform)

(***************************************************************************)
(* Program constants                                                       *)
(***************************************************************************)
NumBuckets == 10

UsageMsg ==
    <<"U","s","a","g","e",":"," ","p","y","t","h","o","n"," ",
      "r","u","n","_","n","i","m","a",".","p","y"," ",
      "<","i","m","a","g","e","_","p","a","t","h",">">>

WeightsRel == <<"model", "mobilenet_weights.h5">>

(***************************************************************************)
(* The environment: scripts, paths, files                                  *)
(***************************************************************************)
ScriptName == "run_nima.py"
ScriptDirs == {<<"app">>, <<"opt", "nima">>}
Scripts == {d \o <<ScriptName>> : d \in ScriptDirs}
ImageFile == <<"pics", "a.jpg">>
Paths == {d \o WeightsRel : d \in ScriptDirs} \cup {ImageFile}
FileKinds == {"absent", "weights", "image", "garbage"}

RECURSIVE SeqsUpTo(_, _)
SeqsUpTo(S, n) ==
    IF n = 0 THEN {<<>>}
    ELSE LET shorter == SeqsUpTo(S, n - 1)
         IN  shorter \cup {Append(s, e) : s \in shorter, e \in S}

\* os.path.dirname / os.path.join on absolute paths kept as component lists
Dirname(p) == SubSeq(p, 1, Len(p) - 1)
Join(base, a, b) == base \o <<a, b>>

(***************************************************************************)
(* Numbers.  A float is a binary fraction.  It is kept exactly, as a       *)
(* natural number counted in units of 2^-FracBits (a score) or as a "big"  *)
(* natural: its limbs in base 2^LimbBits, least significant first, with a  *)
(* scale that says how many of the limbs are fractional.                   *)
(***************************************************************************)
MantBits == 23                    \* fraction bits of a float32
DoubleBits == 53                  \* significant bits of a float64
FracBits == 30                    \* a score is a multiple of 2^-FracBits
LimbBits == 15
Base == 2 ^ LimbBits
FracLimbs == FracBits \div LimbBits

\* round half to even, given the floor q and how the remainder compares to 1/2
HalfEven(q, cmp) ==
    IF cmp > 0 THEN q + 1
    ELSE IF cmp < 0 THEN q
    ELSE IF q % 2 = 0 THEN q ELSE q + 1

\* numpy.float32(k/d) in units of 2^-FracBits, for k = 0 or
\* 2^-(FracBits - MantBits) <= k/d <= 1: the quotient is cut after the 24th
\* significant bit and rounded to nearest, ties to even
F32(k, d) ==
    IF k = 0 THEN 0
    ELSE LET q1 == (k * Base) \div d
             r1 == (k * Base) % d
             q2 == (r1 * Base) \div d
             r2 == (r1 * Base) % d
             Q == q1 * Base + q2                   \* floor(k * 2^FracBits / d)
             z == CHOOSE e \in 0..(FracBits - MantBits) :
                      /\ k * (2 ^ e) >= d
                      /\ e > 0 => k * (2 ^ (e - 1)) < d
             g == 2 ^ (FracBits - MantBits - z)    \* weight of the last kept bit
         IN  HalfEven(Q \div g, 2 * ((Q % g) * d + r2) - g * d) * g

\* the element of a set of one.  Written The({F(v) : v \in {e}}) it is
\* F(e), with e computed first and once
The(S) == CHOOSE r \in S : TRUE

\* the limb i of a, 0 outside of a
Limb(a, i) == IF i >= 1 /\ i <= Len(a) THEN a[i] ELSE 0

\* a without its leading zero limbs
Trim(a) ==
    The({SubSeq(t, 1, CHOOSE n \in 0..Len(t) :
                          /\ n > 0 => t[n] # 0
                          /\ \A i \in (n + 1)..Len(t) : t[i] = 0) : t \in {a}})

RECURSIVE CarryFrom(_, _, _)
\* the limbs of a + c from limb i on, where the entries of a may exceed
\* the base and c is the carry into limb i
CarryFrom(a, i, c) ==
    IF i > Len(a)
    THEN IF c = 0 THEN <<>> ELSE <<c % Base>> \o CarryFrom(a, i, c \div Base)
    ELSE <<(a[i] + c) % Base>> \o CarryFrom(a, i + 1, (a[i] + c) \div Base)

Carry(a, c) == The({CarryFrom(t, 1, c) : t \in {a}})

\* the limbs of n <= 2^FracBits
ToBig(n) == Trim(<<n % Base, (n \div Base) % Base, n \div (Base * Base)>>)

BigAdd(a, b) ==
    LET n == IF Len(a) > Len(b) THEN Len(a) ELSE Len(b)
    IN  Trim(Carry([i \in 1..n |-> Limb(a, i) + Limb(b, i)], 0))

\* a * k for a small k (k <= 40000)
BigScale(a, k) == Trim(Carry([i \in 1..Len(a) |-> a[i] * k], 0))

\* a * Base^n
BigShift(a, n) == IF a = <<>> THEN <<>> ELSE [i \in 1..n |-> 0] \o a

RECURSIVE Column(_, _, _, _)
\* what the long multiplication of a and b puts into limb c before the
\* carries, from the limbs i.. of a: of each product a[i] * b[j] the low
\* limb where i + j = c + 1 and the high limb where i + j = c
Column(a, b, c, i) ==
    IF i > Len(a) THEN 0
    ELSE ((a[i] * Limb(b, c + 1 - i)) % Base)
           + ((a[i] * Limb(b, c - i)) \div Base)
           + Column(a, b, c, i + 1)

BigMul(a, b) ==
    The({Trim(Carry([c \in 1..(Len(u) + Len(v)) |-> Column(u, v, c, 1)], 0)) :
            u \in {a}, v \in {b}})

\* a < b, for trimmed a and b
BigLess(a, b) ==
    \/ Len(a) < Len(b)
    \/ /\ Len(a) = Len(b)
       /\ \E i \in 1..Len(a) : /\ a[i] < b[i]
                               /\ \A j \in (i + 1)..Len(a) : a[j] = b[j]

\* a - b for a >= b: add the complement of b, drop the carry out
BigSub(a, b) ==
    LET n == Len(a)
        t == Carry([i \in 1..n |-> a[i] + (Base - 1 - Limb(b, i))], 1)
    IN  Trim(SubSeq(t, 1, n))

BigAbsDiff(a, b) == IF BigLess(a, b) THEN BigSub(b, a) ELSE BigSub(a, b)

\* the integer part of a big with sc fractional limbs (below Base^2)
IntPart(a, sc) == Limb(a, sc + 1) + Base * Limb(a, sc + 2)

\* how the fractional part of a big with sc fractional limbs compares to 1/2
FracCmpHalf(a, sc) ==
    LET top == Limb(a, sc)
        rest == \E i \in 1..(sc - 1) : Limb(a, i) # 0
    IN  IF top > Base \div 2 \/ (top = Base \div 2 /\ rest) THEN 1
        ELSE IF top = Base \div 2 THEN 0
        ELSE -1

\* a * 2^n
BigShl(a, n) == BigShift(BigScale(a, 2 ^ (n % LimbBits)), n \div LimbBits)

\* the number of bits of a trimmed big
BitLen(a) ==
    IF a = <<>> THEN 0
    ELSE LimbBits * (Len(a) - 1)
           + CHOOSE b \in 1..LimbBits : a[Len(a)] >= 2 ^ (b - 1) /\ a[Len(a)] < 2 ^ b

\* a as float64 holds it: cut after the 53rd significant bit and rounded to
\* nearest, ties to even.  Of the b bits cut, q whole limbs and r bits of
\* the next limb
Round53(a) ==
    IF BitLen(a) <= DoubleBits THEN a
    ELSE LET b == BitLen(a) - DoubleBits
             q == b \div LimbBits
             r == b % LimbBits
             w == 2 ^ r
             cut == a[q + 1] % w
             below == \E i \in 1..q : a[i] # 0
             cmp == IF r = 0 THEN FracCmpHalf(a, q)
                    ELSE IF cut > w \div 2 \/ (cut = w \div 2 /\ below) THEN 1
                    ELSE IF cut = w \div 2 THEN 0
                    ELSE -1
             kept == [i \in 1..Len(a) |-> IF i <= q THEN 0
                                          ELSE IF i = q + 1 THEN a[i] - cut
                                          ELSE a[i]]
         IN  IF HalfEven((a[q + 1] \div w) % 2, cmp) = (a[q + 1] \div w) % 2
             THEN Trim(kept)
             ELSE BigAdd(kept, BigShl(<<1>>, b))

\* a + b and a * b in float64
Add64(a, b) == The({Round53(t) : t \in {BigAdd(u, v) : u \in {a}, v \in {b}}})
Mul64(a, b) == The({Round53(t) : t \in {BigMul(u, v) : u \in {a}, v \in {b}}})

RECURSIVE BigDivFrom(_, _, _)
\* quotient and remainder of (the limbs i.. of a) by a small d (d <= 40000)
BigDivFrom(a, i, d) ==
    IF i > Len(a) THEN [q |-> <<>>, r |-> 0]
    ELSE The({[q |-> <<(h.r * Base + a[i]) \div d>> \o h.q,
               r |-> (h.r * Base + a[i]) % d] : h \in {BigDivFrom(a, i + 1, d)}})

(***************************************************************************)
(* Model outputs: 10 float32 values close to a distribution                *)
(***************************************************************************)
RECURSIVE Compositions(_, _)
Compositions(k, n) ==
    IF k = 0 THEN (IF n = 0 THEN {<<>>} ELSE {})
    ELSE UNION {{<<j>> \o s : s \in Compositions(k - 1, n - j)} : j \in 0..n}

\* the float32 vector nearest to the distribution q / d
Float32s(q, d) ==
    <<F32(q[1], d), F32(q[2], d), F32(q[3], d), F32(q[4], d), F32(q[5], d),
      F32(q[6], d), F32(q[7], d), F32(q[8], d), F32(q[9], d), F32(q[10], d)>>

Uniform == Float32s(<<1, 1, 1, 1, 1, 1, 1, 1, 1, 1>>, NumBuckets)

\* the outputs nearest to the distributions in multiples of 1/d
OutputsWithUnit(d) == {Float32s(q, d) : q \in Compositions(NumBuckets, d)}

\* what the softmax head can return: any distribution, as float32 (here:
\* the uniform one and those in multiples of 1/d for d up to MaxDen)
ModelOutputs == UNION {OutputsWithUnit(d) : d \in 1..MaxDen} \cup {Uniform}

\* the outputs used where only the course of the run matters: the ten
\* distributions on one bucket and the uniform one
FewOutputs == OutputsWithUnit(1) \cup {Uniform}

(***************************************************************************)
(* utils.score_utils: mean_score, std_score                                *)
(***************************************************************************)
RECURSIVE WeightedSum(_, _)
\* sum over i in 1..k of i * s[i], in units of 2^-FracBits (a score of 0
\* adds nothing)
WeightedSum(s, k) ==
    IF k = 0 THEN <<>>
    ELSE IF s[k] = 0 THEN WeightedSum(s, k - 1)
    ELSE The({BigAdd(sum, term) : sum \in {WeightedSum(s, k - 1)},
                                  term \in {BigScale(ToBig(s[k]), k)}})

\* ((i - m) ** 2) * w in float64, for m in units of 2^-FracBits: the
\* difference is exact, the square and the product are rounded (a score of
\* 0 gives 0)
SquaredDev(i, m, w) ==
    IF w = 0 THEN <<>>
    ELSE The({Mul64(sq, f) :
                 sq \in {Mul64(dev, dev) :
                            dev \in {BigAbsDiff(BigShift(<<i>>, FracLimbs), m)}},
                 f \in {ToBig(w)}})

\* numpy.sum of the ten products in float64, in units of 2^-(3 * FracBits),
\* in the order numpy adds ten numbers: the first eight in pairs, pairs of
\* pairs and the two halves, then the ninth, then the tenth
SquaredDevSum(s, m) ==
    LET D(i) == SquaredDev(i, m, s[i])
    IN  The({Add64(y, D(10)) :
                y \in {Add64(z, D(9)) :
                   z \in {Add64(l, r) :
                      l \in {Add64(a, b) : a \in {Add64(D(1), D(2))},
                                           b \in {Add64(D(3), D(4))}},
                      r \in {Add64(a, b) : a \in {Add64(D(5), D(6))},
                                           b \in {Add64(D(7), D(8))}}}}})

\* mean = sum(scores * [1..10])
mean_score(s) ==
    [big |-> WeightedSum(s, NumBuckets), scale |-> FracLimbs, sqrt |-> FALSE]

\* std = sqrt(sum((([1..10] - mean) ** 2) * scores)): the float64 sum,
\* with the root still to be taken
std_score(s) ==
    [big |-> The({SquaredDevSum(s, m) : m \in {mean_score(s).big}}),
     scale |-> 3 * FracLimbs, sqrt |-> TRUE]

(***************************************************************************)
(* Formatting: f"{v:.2f}"                                                  *)
(***************************************************************************)
\* the largest q with q*q <= a, for 0 <= a < 1024*1024, found in two
\* passes: the block of 32 it lies in, then its place in the block
FloorRoot(a) ==
    LET Fits(q) == q * q <= a
        b == CHOOSE h \in 0..31 : Fits(32 * h) /\ ~Fits(32 * (h + 1))
    IN  CHOOSE q \in (32 * b)..(32 * b + 31) : Fits(q) /\ ~Fits(q + 1)

\* the tie o/200 (o odd, 1/256 <= o/200 < 8) on the grid of float64: with
\* 2^-g the half of the last place of a float64 next to o/200, k is o/200
\* in units of 2^-g (2^53 <= k < 2^54) and cut is what the division left
TieGrid(o) ==
    The({The({[g |-> g, k |-> Trim(d.q), cut |-> d.r] :
                 d \in {BigDivFrom(a, 1, 200) : a \in {BigShl(<<o>>, g)}}}) :
            g \in {45 + CHOOSE j \in 6..16 : o * 2 ^ j >= 51200 /\ o * 2 ^ j < 102400}})

\* m * m < n * 2^e
SquareLess(m, n, e) ==
    The({BigLess(sq, v) : sq \in {BigMul(u, u) : u \in {m}}, v \in {BigShl(n, e)}})

\* n * 2^e < m * m
LessSquare(n, e, m) ==
    The({BigLess(v, sq) : sq \in {BigMul(u, u) : u \in {m}}, v \in {BigShl(n, e)}})

\* how the float64 nearest to the root of n / Base^sc compares to the tie
\* o/200 (sc <= 6): 1 above, 0 on it, -1 below.  The root rounds to the
\* float64 above a midpoint of two float64s exactly when n is above the
\* midpoint squared (a number of at most 53 bits is the square of no
\* midpoint).  If o/200 is a float64 (k even, nothing cut), the root rounds
\* to it between the midpoints below and above it; the one below is at a
\* quarter of the last place where o/200 is a power of 2, so it is taken in
\* units of 2^-(g + 1).  Otherwise the midpoint of the two float64s around
\* o/200 decides.
RootSide(n, sc, o) ==
    The({IF t.cut = 0 /\ t.k[1] % 2 = 0
         THEN IF SquareLess(BigAdd(t.k, <<1>>), n, 2 * t.g - LimbBits * sc) THEN 1
              ELSE IF LessSquare(n, 2 * (t.g + 1) - LimbBits * sc,
                                 BigSub(BigScale(t.k, 2),
                                        IF t.k = BigShl(<<1>>, DoubleBits)
                                        THEN <<1>> ELSE <<2>>))
                   THEN -1
              ELSE 0
         ELSE IF SquareLess(IF t.k[1] % 2 = 0 THEN BigAdd(t.k, <<1>>) ELSE t.k,
                            n, 2 * t.g - LimbBits * sc)
              THEN 1
         ELSE -1 : t \in {TieGrid(o)}})

\* 100 * sqrt(n / Base^sc) as float64 holds the root, rounded to the
\* nearest integer, ties to even.  f is the floor of 200 * the root, so the
\* only tie near the float64 is at the odd one of f and f + 1
RoundRoot(n, sc) ==
    The({HalfEven((o - 1) \div 2, RootSide(n, sc, o)) :
            o \in {f + 1 - (f % 2) :
                      f \in {FloorRoot(IntPart(BigScale(n, 40000), sc))}}})

\* 100 * v rounded to the nearest integer, ties to even, for the value v
\* the float holds
Hundredths(v) ==
    IF v.sqrt
    THEN RoundRoot(v.big, v.scale)
    ELSE The({HalfEven(IntPart(t, v.scale), FracCmpHalf(t, v.scale)) :
                 t \in {BigScale(v.big, 100)}})

DecimalDigits == <<"0", "1", "2", "3", "4", "5", "6", "7", "8", "9">>
DigitChar(k) == DecimalDigits[k + 1]

RECURSIVE IntDigits(_)
IntDigits(k) ==
    IF k < 10 THEN <<DigitChar(k)>>
    ELSE Append(IntDigits(k \div 10), DigitChar(k % 10))

\* variant: f"{v:.1f}"
Fmt1f(v) ==
    LET h == Hundredths(v)
        t == HalfEven(h \div 10, 2 * (h % 10) - 10)
    IN  IntDigits(t \div 10) \o <<".", DigitChar(t % 10)>>

\* h hundredths written with two digits after the point
Fixed2(h) ==
    IntDigits(h \div 100) \o <<".", DigitChar((h \div 10) % 10), DigitChar(h % 10)>>

Fmt2f(v) == The({Fixed2(h) : h \in {Hundredths(v)}})

ScoreLine(m, s) == Fmt2f(m) \o <<",">> \o Fmt2f(s)

(***************************************************************************)
(* Initial state: the process has started, nothing has run yet             *)
(***************************************************************************)
Init ==
    /\ scriptFile \in Scripts
    /\ \E args \in SeqsUpTo(Paths, MaxArgs) : sys_argv = <<scriptFile>> \o args
    /\ fs \in [Paths -> FileKinds]
    /\ pc = "main"
    /\ image_path = NoPath
    /\ weights_path = NoPath
    /\ model = NoModel
    /\ x = None
    /\ scores = NoScores
    /\ mean = NoValue
    /\ std = NoValue
    /\ raised = None
    /\ stdout = <<>>
    /\ stderr = <<>>
    /\ exitCode = <<>>
    /\ opens = <<>>
    /\ calls = <<>>

(***************************************************************************)
(* main                                                                    *)
(***************************************************************************)
\* variant: if len(sys.argv) < 2:
CheckArgs_lt ==
    /\ pc = "main"
    /\ pc' = IF Len(sys_argv) < 2 THEN "usage" ELSE "paths"
    /\ UNCHANGED <<scriptFile, sys_argv, fs, image_path, weights_path, model, x,
                   scores, mean, std, raised, stdout, stderr, exitCode, opens, calls>>

\* if len(sys.argv) != 2:
CheckArgs ==
    /\ pc = "main"
    /\ pc' = IF Len(sys_argv) # 2 THEN "usage" ELSE "paths"
    /\ UNCHANGED <<scriptFile, sys_argv, fs, image_path, weights_path, model, x,
                   scores, mean, std, raised, stdout, stderr, exitCode, opens, calls>>

\* print("Usage: python run_nima.py <image_path>")
PrintUsage ==
    /\ pc = "usage"
    /\ stdout' = Append(stdout, UsageMsg)
    /\ calls' = Append(calls, "print")
    /\ pc' = "sys_exit"
    /\ UNCHANGED <<scriptFile, sys_argv, fs, image_path, weights_path, model, x,
                   scores, mean, std, raised, stderr, exitCode, opens>>

\* variant: sys.exit(0)
SysExit_zero ==
    /\ pc = "sys_exit"
    /\ exitCode' = <<0>>
    /\ pc' = "exited"
    /\ UNCHANGED <<scriptFile, sys_argv, fs, image_path, weights_path, model, x,
                   scores, mean, std, raised, stdout, stderr, opens, calls>>

\* sys.exit(1)
SysExit ==
    /\ pc = "sys_exit"
    /\ exitCode' = <<1>>
    /\ pc' = "exited"
    /\ UNCHANGED <<scriptFile, sys_argv, fs, image_path, weights_path, model, x,
                   scores, mean, std, raised, stdout, stderr, opens, calls>>

\* variant: weights_path = join('model', 'mobilenet_weights.h5'), relative to
\* the working directory instead of the script
ResolvePaths_cwd ==
    /\ pc = "paths"
    /\ image_path' = sys_argv[2]
    /\ weights_path' = WeightsRel
    /\ pc' = "build"
    /\ UNCHANGED <<scriptFile, sys_argv, fs, model, x, scores, mean, std, raised,
                   stdout, stderr, exitCode, opens, calls>>

\* image_path = sys.argv[1]; BASE_DIR = dirname(abspath(__file__));
\* weights_path = join(BASE_DIR, 'model', 'mobilenet_weights.h5')
ResolvePaths ==
    /\ pc = "paths"
    /\ image_path' = sys_argv[2]
    /\ weights_path' = Join(Dirname(scriptFile), WeightsRel[1], WeightsRel[2])
    /\ pc' = "build"
    /\ UNCHANGED <<scriptFile, sys_argv, fs, model, x, scores, mean, std, raised,
                   stdout, stderr, exitCode, opens, calls>>

(***************************************************************************)
(* load_nima_model                                                         *)
(***************************************************************************)
\* MobileNet(..., weights=None); Dropout; Dense(10, softmax); Model(...)
BuildModel ==
    /\ pc = "build"
    /\ model' = [outputs |-> NumBuckets, weights |-> "random"]
    /\ calls' = Append(calls, "Model")
    /\ pc' = "load_weights"
    /\ UNCHANGED <<scriptFile, sys_argv, fs, image_path, weights_path, x, scores,
                   mean, std, raised, stdout, stderr, exitCode, opens>>

Count(seq, e) == Cardinality({i \in DOMAIN seq : seq[i] = e})

\* variant: a failed load is tried once more before giving up
LoadWeights_retry ==
    /\ pc = "load_weights"
    /\ opens' = Append(opens, [path |-> weights_path, mode |-> "r", by |-> "load_weights"])
    /\ calls' = Append(calls, "load_weights")
    /\ IF fs[weights_path] = "weights"
       THEN /\ model' = [model EXCEPT !.weights = "pretrained"]
            /\ pc' = "load_img"
            /\ UNCHANGED raised
       ELSE IF Count(calls, "load_weights") = 0
       THEN /\ pc' = "load_weights"
            /\ UNCHANGED <<raised, model>>
       ELSE /\ raised' = "weights_error"
            /\ pc' = "raise"
            /\ UNCHANGED model
    /\ UNCHANGED <<scriptFile, sys_argv, fs, image_path, weights_path, x, scores,
                   mean, std, stdout, stderr, exitCode>>

\* variant: a failed load is swallowed and the run goes on with the
\* untrained network
LoadWeights_swallow ==
    /\ pc = "load_weights"
    /\ opens' = Append(opens, [path |-> weights_path, mode |-> "r", by |-> "load_weights"])
    /\ calls' = Append(calls, "load_weights")
    /\ model' = IF fs[weights_path] = "weights"
                THEN [model EXCEPT !.weights = "pretrained"] ELSE model
    /\ pc' = "load_img"
    /\ UNCHANGED <<scriptFile, sys_argv, fs, image_path, weights_path, x, scores,
                   mean, std, raised, stdout, stderr, exitCode>>

\* model.load_weights(weights_path); return model
LoadWeights ==
    /\ pc = "load_weights"
    /\ opens' = Append(opens, [path |-> weights_path, mode |-> "r", by |-> "load_weights"])
    /\ calls' = Append(calls, "load_weights")
    /\ IF fs[weights_path] = "weights"
       THEN /\ model' = [model EXCEPT !.weights = "pretrained"]
            /\ pc' = "load_img"
            /\ UNCHANGED raised
       ELSE /\ raised' = "weights_error"
            /\ pc' = "raise"
            /\ UNCHANGED model
    /\ UNCHANGED <<scriptFile, sys_argv, fs, image_path, weights_path, x, scores,
                   mean, std, stdout, stderr, exitCode>>

(***************************************************************************)
(* evaluate_image                                                          *)
(***************************************************************************)
\* img = load_img(image_path, target_size=(224, 224)); img_to_array;
\* expand_dims; preprocess_input
LoadImg ==
    /\ pc = "load_img"
    /\ opens' = Append(opens, [path |-> image_path, mode |-> "r", by |-> "load_img"])
    /\ calls' = Append(calls, "load_img")
    /\ IF fs[image_path] = "image"
       THEN /\ x' = "tensor"
            /\ pc' = "predict"
            /\ UNCHANGED raised
       ELSE /\ raised' = "image_error"
            /\ pc' = "raise"
            /\ UNCHANGED x
    /\ UNCHANGED <<scriptFile, sys_argv, fs, image_path, weights_path, model, scores,
                   mean, std, stdout, stderr, exitCode>>

\* scores = model.predict(x, verbose=0)[0]
Predict(outputs) ==
    /\ pc = "predict"
    /\ calls' = Append(calls, "predict")
    /\ \/ /\ raised' = "inference_error"
          /\ pc' = "raise"
          /\ UNCHANGED scores
       \/ /\ scores' \in outputs
          /\ pc' = "mean"
          /\ UNCHANGED raised
    /\ UNCHANGED <<scriptFile, sys_argv, fs, image_path, weights_path, model, x,
                   mean, std, stdout, stderr, exitCode, opens>>

\* variant: mean = std_score(scores)
EvalMean_swapped ==
    /\ pc = "mean"
    /\ mean' = std_score(scores)
    /\ calls' = Append(calls, "mean_score")
    /\ pc' = "std"
    /\ UNCHANGED <<scriptFile, sys_argv, fs, image_path, weights_path, model, x,
                   scores, std, raised, stdout, stderr, exitCode, opens>>

\* mean = mean_score(scores)
EvalMean ==
    /\ pc = "mean"
    /\ mean' = mean_score(scores)
    /\ calls' = Append(calls, "mean_score")
    /\ pc' = "std"
    /\ UNCHANGED <<scriptFile, sys_argv, fs, image_path, weights_path, model, x,
                   scores, std, raised, stdout, stderr, exitCode, opens>>

\* variant: std = mean_score(scores)
EvalStd_swapped ==
    /\ pc = "std"
    /\ std' = mean_score(scores)
    /\ calls' = Append(calls, "std_score")
    /\ pc' = "print"
    /\ UNCHANGED <<scriptFile, sys_argv, fs, image_path, weights_path, model, x,
                   scores, mean, raised, stdout, stderr, exitCode, opens>>

\* std = std_score(scores); return mean, std
EvalStd ==
    /\ pc = "std"
    /\ std' = std_score(scores)
    /\ calls' = Append(calls, "std_score")
    /\ pc' = "print"
    /\ UNCHANGED <<scriptFile, sys_argv, fs, image_path, weights_path, model, x,
                   scores, mean, raised, stdout, stderr, exitCode, opens>>

(***************************************************************************)
(* main, continued                                                         *)
(***************************************************************************)
\* variant: print(f"{std_score_value:.2f},{mean_score_value:.2f}")
PrintScore_swapped ==
    /\ pc = "print"
    /\ stdout' = Append(stdout, ScoreLine(std, mean))
    /\ calls' = Append(calls, "print")
    /\ pc' = "return"
    /\ UNCHANGED <<scriptFile, sys_argv, fs, image_path, weights_path, model, x,
                   scores, mean, std, raised, stderr, exitCode, opens>>

\* print(f"{mean_score_value:.2f},{std_score_value:.2f}")
PrintScore ==
    /\ pc = "print"
    /\ stdout' = Append(stdout, ScoreLine(mean, std))
    /\ calls' = Append(calls, "print")
    /\ pc' = "return"
    /\ UNCHANGED <<scriptFile, sys_argv, fs, image_path, weights_path, model, x,
                   scores, mean, std, raised, stderr, exitCode, opens>>

\* main() returns; the interpreter exits with status 0
ExitOk ==
    /\ pc = "return"
    /\ exitCode' = <<0>>
    /\ pc' = "exited"
    /\ UNCHANGED <<scriptFile, sys_argv, fs, image_path, weights_path, model, x,
                   scores, mean, std, raised, stdout, stderr, opens, calls>>

\* variant: main() catches the exception and prints a default score
Uncaught_fallback ==
    /\ pc = "raise"
    /\ stdout' = Append(stdout, ScoreLine([big |-> <<>>, scale |-> FracLimbs, sqrt |-> FALSE],
                                        [big |-> <<>>, scale |-> FracLimbs, sqrt |-> FALSE]))
    /\ exitCode' = <<0>>
    /\ pc' = "exited"
    /\ UNCHANGED <<scriptFile, sys_argv, fs, image_path, weights_path, model, x,
                   scores, mean, std, raised, stderr, opens, calls>>

\* no try/except anywhere: the exception leaves main(); the interpreter
\* writes the traceback to standard error and exits with status 1
Uncaught ==
    /\ pc = "raise"
    /\ stderr' = Append(stderr, raised)
    /\ exitCode' = <<1>>
    /\ pc' = "exited"
    /\ UNCHANGED <<scriptFile, sys_argv, fs, image_path, weights_path, model, x,
                   scores, mean, std, raised, stdout, opens, calls>>

\* one step of the program, for a network that returns one of outputs
Step(outputs) ==
    \/ CheckArgs
    \/ PrintUsage
    \/ SysExit
    \/ ResolvePaths
    \/ BuildModel
    \/ LoadWeights
    \/ LoadImg
    \/ Predict(outputs)
    \/ EvalMean
    \/ EvalStd
    \/ PrintScore
    \/ ExitOk
    \/ Uncaught

Next == Step(ModelOutputs)

Spec == Init /\ [][Next]_vars

\* the program is sequential and every external call returns or raises;
\* whether a run ends does not depend on the values the network returns
FairNext == Step(FewOutputs)

FairSpec == Init /\ [][FairNext]_vars /\ WF_vars(FairNext)

(***************************************************************************)
(* Vocabulary of the properties                                            *)
(***************************************************************************)
Exited == pc = "exited"
UserArgs == Len(sys_argv) - 1
ExpectedWeightsPath == Dirname(scriptFile) \o <<"model", "mobilenet_weights.h5">>

IsDigit(c) == c \in {"0", "1", "2", "3", "4", "5", "6", "7", "8", "9"}

\* one or more digits, a point, exactly two digits
IsFixed2(t) ==
    /\ Len(t) >= 4
    /\ t[Len(t) - 2] = "."
    /\ \A i \in 1..Len(t) : i # Len(t) - 2 => IsDigit(t[i])

\* <fixed2>,<fixed2> and nothing else
IsScoreLine(l) ==
    \E c \in 1..Len(l) :
        /\ l[c] = ","
        /\ IsFixed2(SubSeq(l, 1, c - 1))
        /\ IsFixed2(SubSeq(l, c + 1, Len(l)))

\* every step up to and including the inference succeeded
AllSucceeded ==
    /\ model.weights = "pretrained"
    /\ x = "tensor"
    /\ scores # NoScores

\* the sum of the 10 scores, in units of 2^-30
Total(s) == s[1] + s[2] + s[3] + s[4] + s[5] + s[6] + s[7] + s[8] + s[9] + s[10]

\* a probability distribution over the 10 buckets, as float32 can hold it:
\* each score may be off by half a unit in its last place (at most 2^-25)
IsDistribution(s) ==
    /\ DOMAIN s = 1..10
    /\ \A i \in 1..10 : s[i] >= 0 /\ s[i] <= 2 ^ 30
    /\ Total(s) - 2 ^ 30 <= 10 * 32
    /\ 2 ^ 30 - Total(s) <= 10 * 32

\* sum of i * s[i], for the low 15 bits of the scores and for the rest
SigmaLow(s) ==
    1 * (s[1] % 32768) + 2 * (s[2] % 32768) + 3 * (s[3] % 32768)
      + 4 * (s[4] % 32768) + 5 * (s[5] % 32768) + 6 * (s[6] % 32768)
      + 7 * (s[7] % 32768) + 8 * (s[8] % 32768) + 9 * (s[9] % 32768)
      + 10 * (s[10] % 32768)

SigmaHigh(s) ==
    1 * (s[1] \div 32768) + 2 * (s[2] \div 32768) + 3 * (s[3] \div 32768)
      + 4 * (s[4] \div 32768) + 5 * (s[5] \div 32768) + 6 * (s[6] \div 32768)
      + 7 * (s[7] \div 32768) + 8 * (s[8] \div 32768) + 9 * (s[9] \div 32768)
      + 10 * (s[10] \div 32768)

\* v is exactly (lo + 32768 * hi) / 2^30
IsSum(v, lo, hi) ==
    /\ ~v.sqrt /\ v.scale = 2 /\ Len(v.big) <= 3
    /\ Limb(v.big, 1) = lo % 32768
    /\ Limb(v.big, 2) = (lo \div 32768 + hi) % 32768
    /\ Limb(v.big, 3) = (lo \div 32768 + hi) \div 32768

\* the float32 nearest to 0.1, 1/3 and 2/3, in units of 2^-30
Tenth == 13421773 * 8
Third == 11184811 * 32
TwoThirds == 11184811 * 64

Concentrated(s, k) ==
    s # NoScores /\ \A i \in 1..10 : s[i] = IF i = k THEN 2 ^ 30 ELSE 0

IsUniform(s) == s # NoScores /\ \A i \in 1..10 : s[i] = Tenth

(***************************************************************************)
(* C1: whenever the number of user arguments is not exactly 1, the only    *)
(* thing ever printed is the usage message, no score line is printed, and  *)
(* the process ends with the usage message printed once and status 1.      *)
(***************************************************************************)
C1_UsageError ==
    UserArgs # 1 =>
        /\ \A i \in DOMAIN stdout : stdout[i] = UsageMsg /\ ~IsScoreLine(stdout[i])
        /\ Exited => stdout = <<UsageMsg>> /\ exitCode = <<1>>

C1_Witness == Exited /\ UserArgs = 2 /\ stdout = <<UsageMsg>> /\ exitCode = <<1>>

(***************************************************************************)
(* C2: a run with exactly one argument in which weights load, image decode *)
(* and inference all succeed ends with exactly one line on standard        *)
(* output, of the form <digits>.<2 digits>,<digits>.<2 digits> without     *)
(* whitespace, with status 0, and without the usage message.               *)
(***************************************************************************)
C2_SuccessOutput ==
    (Exited /\ UserArgs = 1 /\ AllSucceeded) =>
        /\ Len(stdout) = 1
        /\ IsScoreLine(stdout[1])
        /\ \A i \in DOMAIN stdout[1] : stdout[1][i] # " "
        /\ stdout[1] # UsageMsg
        /\ exitCode = <<0>>

C2_Witness ==
    /\ Exited /\ UserArgs = 1 /\ AllSucceeded
    /\ scores[2] = Third /\ scores[7] = TwoThirds
    /\ stdout = << <<"5", ".", "3", "3", ",", "2", ".", "3", "6">> >>

(***************************************************************************)
(* C3: output is all-or-nothing.  With one argument, a failed weights      *)
(* load, image decode or inference is never caught: the run ends with a    *)
(* non-zero status, the diagnostic on standard error and nothing on        *)
(* standard output; anything on standard output is a complete score line   *)
(* of a run in which every step succeeded.                                 *)
(***************************************************************************)
C3_AllOrNothing ==
    UserArgs = 1 =>
        /\ raised # None => stdout = <<>>
        /\ (Exited /\ (\/ fs[weights_path] # "weights"
                       \/ fs[image_path] # "image"
                       \/ raised = "inference_error")) =>
               /\ raised # None
               /\ stderr = <<raised>>
               /\ stdout = <<>>
               /\ Len(exitCode) = 1 /\ exitCode[1] # 0
        /\ stdout # <<>> =>
               /\ AllSucceeded
               /\ raised = None
               /\ \A i \in DOMAIN stdout : IsScoreLine(stdout[i])

C3_Witness ==
    /\ Exited /\ UserArgs = 1
    /\ fs[weights_path] = "weights" /\ fs[image_path] = "garbage"
    /\ raised = "image_error" /\ stdout = <<>> /\ exitCode = <<1>>

(***************************************************************************)
(* C4: for every valid distribution p returned by the model, the mean      *)
(* computed by evaluate_image equals the sum over i in 1..10 of            *)
(* i * p[i-1].                                                             *)
(***************************************************************************)
C4_MeanIsWeightedSum ==
    pc \in {"std", "print", "return", "exited"} /\ AllSucceeded =>
        /\ IsDistribution(scores)
        /\ IsSum(mean, SigmaLow(scores), SigmaHigh(scores))

C4_Witness ==
    /\ pc = "std"
    /\ scores[3] = Third /\ scores[6] = Third /\ scores[10] = Third
    /\ mean.big = <<22048, 10922, 6>>

(***************************************************************************)
(* C5: for a distribution concentrated on one bucket k the scorer returns  *)
(* mean = k and std = 0, and the line printed is k.00,0.00; bucket 10      *)
(* prints 10.00,0.00 and bucket 1 prints 1.00,0.00.                        *)
(***************************************************************************)
C5_Degenerate ==
    \A k \in 1..10 :
        (AllSucceeded /\ Concentrated(scores, k)) =>
            /\ pc \in {"print", "return", "exited"} =>
                   /\ IsSum(mean, 0, k * 32768)
                   /\ std.sqrt /\ std.big = <<>>
            /\ pc \in {"return", "exited"} =>
                   stdout = << (IF k = 10 THEN <<"1", "0">> ELSE <<DigitChar(k)>>)
                               \o <<".", "0", "0", ",", "0", ".", "0", "0">> >>

C5_Witness ==
    /\ Exited
    /\ Concentrated(scores, 10)
    /\ stdout = << <<"1", "0", ".", "0", "0", ",", "0", ".", "0", "0">> >>

(***************************************************************************)
(* C6: for the uniform distribution the line printed is 5.50,2.87, where   *)
(* std is the square root of the variance weighted by p (33/4), not of     *)
(* the sample variance of the ten values.                                  *)
(***************************************************************************)
C6_Uniform ==
    (AllSucceeded /\ IsUniform(scores)) =>
        /\ pc \in {"print", "return", "exited"} =>
               \* 11/2 <= mean < 11/2 + 2^-15
               /\ ~mean.sqrt /\ mean.scale = 2 /\ Len(mean.big) = 3
               /\ mean.big[3] = 5 /\ mean.big[2] = 16384
               \* 33/4 <= std^2 < 33/4 + 2^-15
               /\ std.sqrt /\ std.scale = 6 /\ Len(std.big) = 7
               /\ std.big[7] = 8 /\ std.big[6] = 8192
        /\ pc \in {"return", "exited"} =>
               stdout = << <<"5", ".", "5", "0", ",", "2", ".", "8", "7">> >>

C6_Witness ==
    /\ pc = "return"
    /\ IsUniform(scores)
    /\ stdout = << <<"5", ".", "5", "0", ",", "2", ".", "8", "7">> >>

(***************************************************************************)
(* C7: in every run the model is built at most once, the weights are       *)
(* loaded at most once and inference is called at most once; after a       *)
(* failure no further call is made; a successful run makes each call       *)
(* exactly once, in the order build, load weights, load image, predict,    *)
(* mean, std, print.                                                       *)
(***************************************************************************)
C7_OnceInOrder ==
    /\ [](/\ Count(calls, "Model") <= 1
          /\ Count(calls, "load_weights") <= 1
          /\ Count(calls, "load_img") <= 1
          /\ Count(calls, "predict") <= 1
          /\ (Exited /\ exitCode = <<0>>) =>
                 calls = <<"Model", "load_weights", "load_img", "predict",
                           "mean_score", "std_score", "print">>)
    /\ [][raised # None => (calls' = calls /\ opens' = opens)]_vars

C7_Witness ==
    /\ Exited /\ exitCode = <<0>>
    /\ Count(calls, "load_weights") = 1 /\ Count(calls, "predict") = 1
    /\ Len(calls) = 7

(***************************************************************************)
(* C8: files are only ever opened for reading, the weights are read from   *)
(* <script directory>/model/mobilenet_weights.h5 whatever the image-path   *)
(* argument is, and no step changes any file.                              *)
(***************************************************************************)
C8_ReadOnlyFixedPath ==
    /\ [](/\ weights_path \in {NoPath, ExpectedWeightsPath}
          /\ \A i \in DOMAIN opens :
                /\ opens[i].mode = "r"
                /\ opens[i].by = "load_weights" => opens[i].path = ExpectedWeightsPath)
    /\ [][fs' = fs]_vars

C8_Witness ==
    /\ Len(opens) = 2
    /\ opens[1] = [path |-> ExpectedWeightsPath, mode |-> "r", by |-> "load_weights"]
    /\ opens[2].by = "load_img"
    /\ image_path # ExpectedWeightsPath /\ Len(image_path) = 3

(***************************************************************************)
(* C9: given that every external call returns or raises, every run         *)
(* terminates, in exactly one of three outcomes: usage error (status 1,    *)
(* only the usage message printed), success (status 0, only the score      *)
(* line printed), uncaught failure (non-zero status, nothing printed).     *)
(***************************************************************************)
OutcomeUsage == exitCode = <<1>> /\ stdout = <<UsageMsg>> /\ raised = None /\ UserArgs # 1
OutcomeSuccess ==
    /\ exitCode = <<0>> /\ Len(stdout) = 1 /\ IsScoreLine(stdout[1])
    /\ raised = None /\ UserArgs = 1
OutcomeFailure ==
    /\ Len(exitCode) = 1 /\ exitCode[1] # 0 /\ stdout = <<>>
    /\ raised # None /\ UserArgs = 1

C9_Terminates ==
    /\ <>Exited
    /\ [](Exited => \/ (OutcomeUsage /\ ~OutcomeSuccess /\ ~OutcomeFailure)
                    \/ (OutcomeSuccess /\ ~OutcomeUsage /\ ~OutcomeFailure)
                    \/ (OutcomeFailure /\ ~OutcomeUsage /\ ~OutcomeSuccess))

C9_Witness == Exited /\ OutcomeFailure /\ raised = "inference_error"

(***************************************************************************)
(* C10: the argument check comes first: a run that ends in the usage error *)
(* builds no model and opens no file; and the image is opened only after   *)
(* the weights were loaded, so when the weights load fails the image is    *)
(* never opened and only the weights error is reported.                    *)
(***************************************************************************)
C10_CheckThenWeightsThenImage ==
    /\ UserArgs # 1 =>
           /\ model = NoModel /\ x = None /\ opens = <<>>
           /\ \A i \in DOMAIN calls : calls[i] = "print"
    /\ \A i \in DOMAIN opens :
           opens[i].by = "load_img" =>
               /\ model.weights = "pretrained"
               /\ \E j \in 1..(i - 1) : opens[j].by = "load_weights"
    /\ (UserArgs = 1 /\ pc \in {"raise", "exited"} /\ fs[weights_path] # "weights") =>
           /\ raised = "weights_error"
           /\ Len(opens) = 1 /\ opens[1].by = "load_weights"
           /\ Count(calls, "load_img") = 0
           /\ Exited => stderr = <<"weights_error">>

C10_Witness ==
    /\ Exited /\ UserArgs = 1
    /\ fs[weights_path] = "absent" /\ fs[image_path] = "absent"
    /\ stderr = <<"weights_error">> /\ Len(opens) = 1

====
